---- MODULE Spec2Model ----
(***************************************************************************)
(* Model of random_walk.py: the construction of a random_walk object,      *)
(* i.e. __init__ storing the configuration and generate_walk_coordinates   *)
(* filling the coordinate arrays x, y, z step by step, with the rejection  *)
(* loop of wall_mode 'exclude'.                                            *)
(*                                                                         *)
(* Numbers.  The program computes in IEEE doubles.  The model computes in  *)
(* fixed point: a coordinate is an integer count of quanta, Unit quanta    *)
(* make 1.0, and one quantum stands for the residue 6.1e-17 that           *)
(* np.cos(np.pi/2) returns instead of 0 (np.sin(np.pi) returns twice that  *)
(* residue, 1.2e-16).  Products are rounded to the nearest quantum; sums   *)
(* are exact, whereas a double of magnitude 1.0 or more absorbs a residue  *)
(* added to it.  Start coordinates, step lengths and limits are whole      *)
(* multiples of 1.0, whose sums are exact in doubles as well.              *)
(*                                                                         *)
(* Randomness.  np.random.choice and np.random.uniform are a               *)
(* nondeterministic choice: from the angles of positive probability in the *)
(* given list, or, for the continuous uniform distribution, from the       *)
(* finite grid AngleGrid.                                                  *)
(***************************************************************************)
EXTENDS Integers, Sequences, FiniteSets, TLC

\* ------------------------------------------------------------- bounds
\* Largest step_number and number_of_walks of a configuration, the largest
\* number of sampled cells (step_number * number_of_walks), and the largest
\* constraint_counter.
MaxSteps == 2
MaxWalks == 2
MaxCells == 2
MaxCounter == 2

\* ------------------------------------------------------------- numbers
\* The float 1.0 in quanta.
Unit == 1000

\* None of Python: an absent list.
None == << >>

\* a * b for two fixed-point numbers, rounded to the nearest quantum.
Mul(a, b) == (2 * a * b + Unit) \div (2 * Unit)

\* Angles are named: A0 = 0, A90 = pi/2, A180 = pi, A53 = arctan(4/3).
\* The continuous uniform distribution over [0, 2 pi) is sampled on this grid.
AngleGrid == {"A180", "A53"}

\* np.cos and np.sin on the named angles, as the floats they return:
\* cos(pi/2) is one residue quantum and sin(pi) is two, not zero.
Cos(a) ==
  CASE a = "A0" -> Unit
    [] a = "A90" -> 1
    [] a = "A180" -> -Unit
    [] a = "A53" -> (3 * Unit) \div 5

Sin(a) ==
  CASE a = "A0" -> 0
    [] a = "A90" -> Unit
    [] a = "A180" -> 2
    [] a = "A53" -> (4 * Unit) \div 5

\* ------------------------------------------------------------- configurations
StepLengths == {Unit, 2 * Unit}
WallModes == {"exclude", "reflect", "absorb"}
DimensionValues == {1, 2, 3, 4}
\* <<x_limits, y_limits, z_limits>>: each None or <<min, max>>.
LimitValues ==
  { <<None, None, None>>,
    << <<0, Unit>>, None, None >>,
    << None, <<0, Unit>>, None >>,
    << None, None, <<0, Unit>> >>,
    << <<0, Unit>>, <<0, Unit>>, <<0, Unit>> >> }
\* <<angles_xy, angles_xz, angles_xy_p, angles_xz_p>> as passed to __init__:
\* each None, or a list of allowed angles and a list of relative weights.
AnglesValues ==
  { <<None, None, None, None>>,
    << <<"A90">>, <<"A0", "A90">>, None, <<0, 1>> >>,
    << <<"A0", "A180">>, None, <<1, 3>>, None >> }

\* A start coordinate is a scalar, kept as a list of one element (numpy
\* broadcasts both the same way), or a list of number_of_walks elements.
PerWalk(n, a, b) == [w \in 1..n |-> IF w = 1 THEN a ELSE b]
\* The start coordinates <<start_x, start_y, start_z>> of a configuration.
StartValues(n) ==
  { << <<0>>, <<0>>, <<0>> >>,
    << <<-Unit>>, <<0>>, <<0>> >>,
    << PerWalk(n, 0, -Unit), PerWalk(n, -Unit, 0), <<-Unit>> >> }

VARIABLES
  step_number, number_of_walks, dimensions, step_length, wall_mode,
  constraint_counter, start_x, start_y, start_z, angles_xy, angles_xz,
  angles_xy_p, angles_xz_p, x_limits, y_limits, z_limits,
  x, y, z, curr_step, constraint_violated, counter,
  end2end_real, end2end, pc, resampled

config == <<step_number, number_of_walks, dimensions, step_length, wall_mode,
            constraint_counter, start_x, start_y, start_z, angles_xy,
            angles_xz, angles_xy_p, angles_xz_p, x_limits, y_limits, z_limits>>
arrays == <<x, y, z>>
vars == <<config, arrays, curr_step, constraint_violated, counter,
          end2end_real, end2end, pc, resampled>>

Walks == 1..number_of_walks

\* Broadcast that gives every walk the first start value.
BroadcastFirst(start, n) == [w \in 1..n |-> start[1]]

\* A start coordinate given as a scalar or as one value per walk, as the row
\* numpy assigns from it.
Broadcast(start, n) ==
  [w \in 1..n |-> IF Len(start) = 1 THEN start[1] ELSE start[w]]

\* np.zeros((step_number+1, number_of_walks)) with row 0 set from start.
StartArray(start) ==
  [s \in 0..step_number |->
     IF s = 0 THEN Broadcast(start, number_of_walks)
              ELSE [w \in Walks |-> 0]]

RECURSIVE SumUpTo(_, _)
SumUpTo(f, n) == IF n = 0 THEN 0 ELSE f[n] + SumUpTo(f, n - 1)

\* p / np.sum(p): relative weights made probabilities, as fractions of Unit.
Normalised(p) ==
  IF p = None THEN None
  ELSE [i \in 1..Len(p) |-> (p[i] * Unit) \div SumUpTo(p, Len(p))]

\* ------------------------------------------------------------- calc_next_steps
\* np.random.choice(a, p=p): the entries of a that can be drawn, all of them
\* when p is None, else those of positive probability.
Choice(a, p) == {a[i] : i \in {j \in 1..Len(a) : p = None \/ p[j] > 0}}

\* The angles in the xy-plane one sample is drawn from.
AnglesXY ==
  IF dimensions = 1 THEN Choice(<<"A0", "A180">>, angles_xy_p)
  ELSE IF angles_xy = None THEN AngleGrid
  ELSE Choice(angles_xy, angles_xy_p)

\* The angles in the xz-plane one sample is drawn from.
AnglesXZ ==
  IF dimensions \in {1, 2} THEN {"A90"}
  ELSE IF angles_xz = None THEN AngleGrid
  ELSE Choice(angles_xz, angles_xz_p)

\* CartesianStep with the cosine of the xz angle in the y component.
CartesianStepCosY(axy, axz) ==
  << Mul(Mul(Cos(axy), Sin(axz)), step_length),
     Mul(Mul(Sin(axy), Cos(axz)), step_length),
     Mul(Cos(axz), step_length) >>

\* Polar coordinates converted to cartesian coordinates.
CartesianStep(axy, axz) ==
  << Mul(Mul(Cos(axy), Sin(axz)), step_length),
     Mul(Mul(Sin(axy), Sin(axz)), step_length),
     Mul(Cos(axz), step_length) >>

\* The displacements calc_next_steps can return for one walk.
CalcNextSteps == {CartesianStep(axy, axz) : axy \in AnglesXY, axz \in AnglesXZ}

\* ------------------------------------------------------------- check_constraints
\* Outside with the limits themselves counted as outside.
OutsideInclusive(limits, c) == (c >= limits[2]) \/ (c <= limits[1])

\* One axis' contribution: outside the limits, strictly.
Outside(limits, c) == (c > limits[2]) \/ (c < limits[1])

\* check_constraints that tests the upper limit of the x axis only.
check_constraints_upper_x(cx, cy, cz) ==
  [w \in DOMAIN cx |-> x_limits # None /\ cx[w] > x_limits[2]]

\* check_constraints on one row: starts all False and adds each limited axis.
check_constraints(cx, cy, cz) ==
  LET v0 == [w \in DOMAIN cx |-> FALSE]
      v1 == IF x_limits # None
              THEN [w \in DOMAIN cx |-> v0[w] \/ Outside(x_limits, cx[w])]
              ELSE v0
      v2 == IF y_limits # None
              THEN [w \in DOMAIN cx |-> v1[w] \/ Outside(y_limits, cy[w])]
              ELSE v1
      v3 == IF z_limits # None
              THEN [w \in DOMAIN cx |-> v2[w] \/ Outside(z_limits, cz[w])]
              ELSE v2
  IN v3

any(mask) == \E w \in DOMAIN mask : mask[w]

\* ------------------------------------------------------------- Init
\* __init__ has stored the configuration, lines 110-141, the weights of the
\* angles normalised; generate_walk_coordinates is about to run.
Init ==
  /\ step_number \in 0..MaxSteps
  /\ number_of_walks \in 1..MaxWalks
  /\ step_number * number_of_walks <= MaxCells
  /\ dimensions \in DimensionValues
  /\ step_length \in StepLengths
  /\ wall_mode \in WallModes
  /\ constraint_counter \in 1..MaxCounter
  /\ \E start \in StartValues(number_of_walks) :
       /\ start_x = start[1]
       /\ start_y = start[2]
       /\ start_z = start[3]
  /\ \E angles \in AnglesValues :
       /\ angles_xy = angles[1]
       /\ angles_xz = angles[2]
       /\ angles_xy_p = Normalised(angles[3])
       /\ angles_xz_p = Normalised(angles[4])
  /\ \E limits \in LimitValues :
       /\ x_limits = limits[1]
       /\ y_limits = limits[2]
       /\ z_limits = limits[3]
  /\ x = << >>
  /\ y = << >>
  /\ z = << >>
  /\ curr_step = 0
  /\ constraint_violated = << >>
  /\ counter = << >>
  /\ end2end_real = << >>
  /\ end2end = 0
  /\ resampled = << >>
  /\ pc = "generate"

\* ------------------------------------------------------------- actions
\* generate_walk_coordinates, lines 156-162: the arrays are allocated and
\* row 0 is set from the start coordinates.
Allocate ==
  /\ pc = "generate"
  /\ x' = StartArray(start_x)
  /\ y' = StartArray(start_y)
  /\ z' = StartArray(start_z)
  /\ curr_step' = 0
  /\ pc' = "for"
  /\ UNCHANGED <<config, constraint_violated, counter, end2end_real, end2end, resampled>>

\* Moved that forgets the previous row.
MovedFromOrigin(prev, steps, axis) == [w \in Walks |-> steps[w][axis]]

\* The row after `prev`, every walk moved by its displacement.
Moved(prev, steps, axis) == [w \in Walks |-> prev[w] + steps[w][axis]]

\* One pass of the for loop up to the branch on wall_mode, lines 165-175:
\* a displacement is sampled for every walk, the next row is set and checked,
\* and the retry counters are zeroed when wall_mode is 'exclude'.
SampleStep ==
  /\ pc = "for"
  /\ curr_step < step_number
  /\ dimensions \in {1, 2, 3}
  /\ \E steps \in [Walks -> CalcNextSteps] :
       LET nx == Moved(x[curr_step], steps, 1)
           ny == Moved(y[curr_step], steps, 2)
           nz == Moved(z[curr_step], steps, 3)
       IN /\ x' = [x EXCEPT ![curr_step + 1] = nx]
          /\ y' = [y EXCEPT ![curr_step + 1] = ny]
          /\ z' = [z EXCEPT ![curr_step + 1] = nz]
          /\ constraint_violated' = check_constraints(nx, ny, nz)
  /\ counter' = IF wall_mode = "exclude" THEN [w \in Walks |-> 0] ELSE counter
  /\ resampled' = [w \in Walks |-> 0]
  /\ pc' = "wall"
  /\ UNCHANGED <<config, curr_step, end2end_real, end2end>>

\* calc_next_steps, lines 218-221: dimensions is none of 1, 2, 3.
RaiseDimensions ==
  /\ pc = "for"
  /\ curr_step < step_number
  /\ dimensions \notin {1, 2, 3}
  /\ pc' = "ValueError"
  /\ UNCHANGED <<config, arrays, curr_step, constraint_violated, counter,
                 end2end_real, end2end, resampled>>

\* The walks flagged in a mask.
Flagged(mask) == {w \in DOMAIN mask : mask[w]}

\* MaskedAssign that replaces the whole row: a walk that is not flagged gets
\* a displacement too.
WholeAssign(row, prev, mask, steps, axis) ==
  [w \in Walks |->
     prev[w] + steps[IF mask[w] THEN w ELSE CHOOSE v \in DOMAIN steps : TRUE][axis]]

\* row[mask] = prev[mask] + step: only the flagged walks are assigned.
MaskedAssign(row, prev, mask, steps, axis) ==
  [w \in Walks |-> IF mask[w] THEN prev[w] + steps[w][axis] ELSE row[w]]

\* counter[mask] += 1
Increment(cnt, mask) == [w \in Walks |-> IF mask[w] THEN cnt[w] + 1 ELSE cnt[w]]

\* BudgetLeft that lets a walk reach the budget before it fails beyond it.
BudgetLeftOffByOne(cnt, mask) ==
  ~ \E w \in Walks : mask[w] /\ cnt[w] > constraint_counter

\* The condition of the assertion of lines 192-196.
BudgetLeft(cnt, mask) == ~ \E w \in Walks : mask[w] /\ cnt[w] >= constraint_counter

\* One iteration of the while loop of wall_mode 'exclude', lines 176-196:
\* new displacements for the flagged walks only, their new row values, the
\* check of the whole row, the retry counters and the assertion.
Resample ==
  /\ pc = "wall"
  /\ wall_mode = "exclude"
  /\ any(constraint_violated)
  /\ \E steps \in [Flagged(constraint_violated) -> CalcNextSteps] :
       LET nx == MaskedAssign(x[curr_step + 1], x[curr_step], constraint_violated, steps, 1)
           ny == MaskedAssign(y[curr_step + 1], y[curr_step], constraint_violated, steps, 2)
           nz == MaskedAssign(z[curr_step + 1], z[curr_step], constraint_violated, steps, 3)
           nv == check_constraints(nx, ny, nz)
           nc == Increment(counter, nv)
       IN /\ x' = [x EXCEPT ![curr_step + 1] = nx]
          /\ y' = [y EXCEPT ![curr_step + 1] = ny]
          /\ z' = [z EXCEPT ![curr_step + 1] = nz]
          /\ constraint_violated' = nv
          /\ counter' = nc
          /\ pc' = IF BudgetLeft(nc, nv) THEN "wall" ELSE "AssertionError"
  /\ resampled' = Increment(resampled, constraint_violated)
  /\ UNCHANGED <<config, curr_step, end2end_real, end2end>>

\* The end of one pass of the for loop: the while loop of 'exclude' has no
\* walk left to resample, or the branch of 'reflect' passes (line 199).
StepDone ==
  /\ pc = "wall"
  /\ \/ wall_mode = "exclude" /\ ~ any(constraint_violated)
     \/ wall_mode = "reflect"
  /\ curr_step' = curr_step + 1
  /\ pc' = "for"
  /\ UNCHANGED <<config, arrays, constraint_violated, counter, end2end_real,
                 end2end, resampled>>

\* Lines 201-204: wall_mode is neither 'exclude' nor 'reflect'.
RaiseWallMode ==
  /\ pc = "wall"
  /\ wall_mode \notin {"exclude", "reflect"}
  /\ pc' = "ValueError"
  /\ UNCHANGED <<config, arrays, curr_step, constraint_violated, counter,
                 end2end_real, end2end, resampled>>

\* The squared distance between row 0 and the last row of walk w.
SquaredDistance(w) ==
  (x[0][w] - x[step_number][w]) * (x[0][w] - x[step_number][w])
  + (y[0][w] - y[step_number][w]) * (y[0][w] - y[step_number][w])
  + (z[0][w] - z[step_number][w]) * (z[0][w] - z[step_number][w])

\* __init__, lines 147-152, after the for loop has ended: the end to end
\* distances.  The model keeps the squares: end2end_real[w] is the square of
\* the program's value, end2end is number_of_walks times the square of the
\* program's value.
Summarise ==
  /\ pc = "for"
  /\ curr_step = step_number
  /\ end2end_real' = [w \in Walks |-> SquaredDistance(w)]
  /\ end2end' = SumUpTo([w \in Walks |-> SquaredDistance(w)], number_of_walks)
  /\ pc' = "done"
  /\ UNCHANGED <<config, arrays, curr_step, constraint_violated, counter, resampled>>

Next ==
  \/ Allocate
  \/ SampleStep
  \/ RaiseDimensions
  \/ Resample
  \/ StepDone
  \/ RaiseWallMode
  \/ Summarise

Spec == Init /\ [][Next]_vars

\* ------------------------------------------------------------- reading a run
\* The limits of an axis (1 = x, 2 = y, 3 = z) and the arrays by axis.
LimitsOf(axis) == IF axis = 1 THEN x_limits ELSE IF axis = 2 THEN y_limits ELSE z_limits
StartOf(axis) == IF axis = 1 THEN start_x ELSE IF axis = 2 THEN start_y ELSE start_z
ArrayOf(axis) == IF axis = 1 THEN x ELSE IF axis = 2 THEN y ELSE z
Axes == {1, 2, 3}

Allocated == pc # "generate"

\* The last row that holds a sampled position: row curr_step + 1 while the
\* branch on wall_mode of that step runs, else row curr_step.
Filled == IF pc \in {"wall", "AssertionError"} THEN curr_step + 1 ELSE curr_step

\* The displacement of walk w between row s and row s + 1.
Displacement(s, w) ==
  << x[s + 1][w] - x[s][w], y[s + 1][w] - y[s][w], z[s + 1][w] - z[s][w] >>

WithinLimits(axis, c) == LimitsOf(axis)[1] <= c /\ c <= LimitsOf(axis)[2]

NoLimits == x_limits = None /\ y_limits = None /\ z_limits = None

\* ------------------------------------------------------------- claims

\* C10: check_constraints flags a walk exactly when, on at least one axis with
\* limits, its coordinate is strictly above max or strictly below min; a
\* coordinate equal to min or max is no violation, an axis without limits
\* never contributes, and without any limits no walk is flagged.
C10_CheckConstraints ==
  pc \in {"wall", "AssertionError"} =>
    \A w \in Walks :
      /\ constraint_violated[w] <=>
           \E axis \in Axes :
             /\ LimitsOf(axis) # None
             /\ \/ ArrayOf(axis)[curr_step + 1][w] > LimitsOf(axis)[2]
                \/ ArrayOf(axis)[curr_step + 1][w] < LimitsOf(axis)[1]
      /\ (\A axis \in Axes :
            LimitsOf(axis) # None =>
              WithinLimits(axis, ArrayOf(axis)[curr_step + 1][w]))
           => ~ constraint_violated[w]
      /\ NoLimits => ~ constraint_violated[w]

\* The row has been checked: one walk sits exactly on the max of the x limits
\* and is not flagged, next to a walk that is flagged.
C10_Witness ==
  /\ pc = "wall"
  /\ number_of_walks = 2
  /\ x_limits # None
  /\ \E w \in Walks : x[curr_step + 1][w] = x_limits[2] /\ ~ constraint_violated[w]
  /\ \E w \in Walks : constraint_violated[w]

\* C6: once the arrays exist, row 0 of every walk holds the configured start
\* position of that walk on every axis (a scalar start value is the start of
\* every walk), whatever steps and rejection-loop iterations have run since.
C6_StartInvariant ==
  Allocated =>
    \A axis \in Axes : \A w \in Walks :
      ArrayOf(axis)[0][w] =
        IF Len(StartOf(axis)) = 1 THEN StartOf(axis)[1] ELSE StartOf(axis)[w]

\* Generation has ended after a step in which a walk was resampled; x has one
\* start per walk, the two differ, and z has a scalar start that is not zero.
C6_Witness ==
  /\ pc = "done"
  /\ step_number >= 1
  /\ number_of_walks = 2
  /\ Len(start_x) = 2
  /\ start_x[1] # start_x[2]
  /\ Len(start_z) = 1
  /\ start_z[1] # 0
  /\ \E w \in Walks : resampled[w] > 0

\* C8: in 'exclude' mode no walk is resampled more than constraint_counter
\* times within one step, so the loop of a step ends after at most
\* constraint_counter rounds; the retry counter starts at zero in each step
\* (it never exceeds the number of resamples of the step); a walk that still
\* violates after its constraint_counter-th resample makes generation fail,
\* and generation fails only so.
C8_BoundedRejectionLoop ==
  (wall_mode = "exclude" /\ pc \in {"wall", "AssertionError"}) =>
    /\ \A w \in Walks : resampled[w] <= constraint_counter
    /\ \A w \in Walks : counter[w] <= resampled[w]
    /\ \A w \in Walks :
         (constraint_violated[w] /\ resampled[w] >= constraint_counter)
           => pc = "AssertionError"
    /\ pc = "AssertionError" =>
         \E w \in Walks : constraint_violated[w] /\ resampled[w] = constraint_counter

\* Generation failed in the second step of a walk that was resampled twice
\* with constraint_counter = 2.
C8_Witness ==
  /\ pc = "AssertionError"
  /\ constraint_counter = 2
  /\ curr_step = 1
  /\ \E w \in Walks : resampled[w] = 2 /\ counter[w] = 2

\* C9: an iteration of the rejection loop of step s changes row s+1 only for
\* the walks flagged when the iteration starts; the row s+1 values of every
\* other walk and all rows 0..s are left unchanged, and no walk becomes
\* flagged that was not flagged before.
C9_MaskedRetry ==
  [][ (pc = "wall" /\ pc' \in {"wall", "AssertionError"}) =>
        /\ \A axis \in Axes : \A w \in Walks :
             ~ constraint_violated[w] =>
               ArrayOf(axis)'[curr_step + 1][w] = ArrayOf(axis)[curr_step + 1][w]
        /\ \A axis \in Axes : \A s \in 0..curr_step :
             ArrayOf(axis)'[s] = ArrayOf(axis)[s]
        /\ \A w \in Walks : constraint_violated'[w] => constraint_violated[w]
    ]_vars

\* The loop has resampled one of two walks and left the other alone.
C9_Witness ==
  /\ pc = "wall"
  /\ number_of_walks = 2
  /\ \E v, w \in Walks : resampled[v] > 0 /\ resampled[w] = 0

\* C7: with wall_mode 'reflect' every filled row is the row before it plus one
\* displacement that calc_next_steps can return, no walk is ever resampled,
\* a row is not touched again once it is set, generation never fails with the
\* assertion of the rejection loop, and coordinates outside the limits stay
\* where they are (C7_Witness is such a trajectory).
C7_ReflectNoOp ==
  /\ [](wall_mode = "reflect" =>
          /\ pc # "AssertionError"
          /\ Allocated => \A s \in 0..(Filled - 1) : \A w \in Walks :
               Displacement(s, w) \in CalcNextSteps
          /\ pc = "wall" => \A w \in Walks : resampled[w] = 0)
  /\ [][(wall_mode = "reflect" /\ pc = "wall") => UNCHANGED arrays]_vars

\* A 'reflect' run that ended with a coordinate outside the limits of its
\* axis in a row after row 0, while the start was within the limits.
C7_Witness ==
  /\ wall_mode = "reflect"
  /\ pc = "done"
  /\ step_number >= 1
  /\ \E axis \in Axes : \E w \in Walks :
       /\ LimitsOf(axis) # None
       /\ WithinLimits(axis, ArrayOf(axis)[0][w])
       /\ ~ WithinLimits(axis, ArrayOf(axis)[step_number][w])

\* The square of the length of a displacement.
SquaredLength(d) == d[1] * d[1] + d[2] * d[2] + d[3] * d[3]

\* C4: without limits on any axis, every filled row is the row before it plus
\* one displacement that calc_next_steps can return, and the length of that
\* displacement is step_length to within one quantum; with dimensions = 1 the
\* x displacement is exactly +step_length or -step_length.
C4_StepLength ==
  (NoLimits /\ Allocated) =>
    \A s \in 0..(Filled - 1) : \A w \in Walks :
      /\ Displacement(s, w) \in CalcNextSteps
      /\ SquaredLength(Displacement(s, w)) >= (step_length - 1) * (step_length - 1)
      /\ SquaredLength(Displacement(s, w)) <= (step_length + 1) * (step_length + 1)
      /\ dimensions = 1 => Displacement(s, w)[1] \in {step_length, -step_length}

\* A run without limits that ended after two steps in three dimensions with
\* a step that is parallel to no axis.
C4_Witness ==
  /\ NoLimits
  /\ pc = "done"
  /\ step_number = 2
  /\ dimensions = 3
  /\ \E w \in Walks :
       /\ Displacement(1, w)[1] * Displacement(1, w)[1] > 1
       /\ Displacement(1, w)[2] * Displacement(1, w)[2] > 1
       /\ Displacement(1, w)[3] * Displacement(1, w)[3] > 1

\* C1: after a successful generation with wall_mode 'exclude', every
\* coordinate on an axis with limits lies within [min, max] in every row
\* 0..step_number, row 0 included, whatever the start position.
C1_BoundaryInvariant ==
  (wall_mode = "exclude" /\ pc = "done") =>
    \A axis \in Axes :
      LimitsOf(axis) # None =>
        \A s \in 0..step_number : \A w \in Walks :
          WithinLimits(axis, ArrayOf(axis)[s][w])

\* What the rejection loop does establish: the rows after row 0.
GeneratedRowsWithinLimits ==
  (wall_mode = "exclude" /\ pc \in {"for", "done"}) =>
    \A axis \in Axes :
      LimitsOf(axis) # None =>
        \A s \in 1..curr_step : \A w \in Walks :
          WithinLimits(axis, ArrayOf(axis)[s][w])

\* The span of the limits of an axis.
Span(axis) == LimitsOf(axis)[2] - LimitsOf(axis)[1]

\* A configuration of 'exclude' mode with at least one step, a budget of one
\* retry and a step longer than the span of the limits of `axis`.
StepExceedsSpan(axis) ==
  /\ wall_mode = "exclude"
  /\ step_number >= 1
  /\ constraint_counter = 1
  /\ dimensions \in {1, 2, 3}
  /\ LimitsOf(axis) # None
  /\ step_length > Span(axis)

\* C2 as claimed: every such configuration fails, whatever the dimensions,
\* the allowed angles and the limited axis; generation never completes.
C2_AlwaysExhausted ==
  (\E axis \in Axes : StepExceedsSpan(axis)) => pc # "done"

\* Every displacement that can be sampled moves a walk by the whole
\* step_length along `axis`.
FullStepAlong(axis) ==
  \A d \in CalcNextSteps : d[axis] \in {step_length, -step_length}

\* Every walk starts within the limits of `axis`.
StartsWithin(axis) ==
  \A w \in 1..number_of_walks :
    WithinLimits(axis, Broadcast(StartOf(axis), number_of_walks)[w])

\* C2 amended: such a configuration fails when, on the limited axis, every
\* walk starts within the limits and every displacement that can be sampled
\* is the whole step_length (as with dimensions = 1 and limits on x): no step
\* is ever completed, every walk is resampled at most once, and the run ends
\* in the assertion of the rejection loop and in nothing else.
C2_ExhaustedOnFullSteps ==
  (\E axis \in Axes :
     StepExceedsSpan(axis) /\ FullStepAlong(axis) /\ StartsWithin(axis)) =>
    /\ pc \in {"generate", "for", "wall", "AssertionError"}
    /\ curr_step = 0
    /\ pc = "wall" => /\ any(constraint_violated)
                      /\ \A w \in Walks : resampled[w] = 0
    /\ pc = "AssertionError" => \A w \in Walks : resampled[w] = 1

\* Such a configuration in two dimensions, with the angles <<pi/2>> and
\* limits on y, has failed in the assertion.
C2_Witness ==
  /\ StepExceedsSpan(2) /\ FullStepAlong(2) /\ StartsWithin(2)
  /\ dimensions = 2
  /\ pc = "AssertionError"

\* C3: a configuration with dimensions outside {1, 2, 3} or wall_mode outside
\* {'exclude', 'reflect'} never ends in a produced trajectory with its end to
\* end distances, whatever step_number >= 0 and number_of_walks >= 1.
C3_InvalidConfigurationRejected ==
  (dimensions \notin {1, 2, 3} \/ wall_mode \notin {"exclude", "reflect"}) =>
    pc # "done"

\* With at least one step the invalid configuration is rejected.
InvalidRejectedWithSteps ==
  ((dimensions \notin {1, 2, 3} \/ wall_mode \notin {"exclude", "reflect"})
     /\ step_number >= 1) =>
    pc # "done"

\* C5: with dimensions = 1 the y and z coordinates of every filled row equal
\* those of row 0, with dimensions = 2 the z coordinates do, in every
\* wall_mode, with or without limits, resampled or not.
C5_DimensionConfinement ==
  Allocated =>
    \A s \in 0..Filled : \A w \in Walks :
      /\ dimensions = 1 => y[s][w] = y[0][w] /\ z[s][w] = z[0][w]
      /\ dimensions = 2 => z[s][w] = z[0][w]

\* What the code keeps: y and z stay within the residue of the trigonometric
\* functions, four quanta for each unit of step_length and each step.
ConfinedUpToResidue ==
  Allocated =>
    \A s \in 0..Filled : \A w \in Walks :
      LET bound == 4 * s * (step_length \div Unit)
          Near(a, b) == a - b <= bound /\ b - a <= bound
      IN /\ dimensions = 1 => Near(y[s][w], y[0][w]) /\ Near(z[s][w], z[0][w])
         /\ dimensions = 2 => Near(z[s][w], z[0][w])

====
